---- MODULE Spec2Model ----
(***************************************************************************)
(* The Instagram scrape pipeline: _paginate and scrape_instagram of        *)
(* scrapers/instagram.py and the batch loop of instagram_app.py main().    *)
(*                                                                         *)
(* Python values read from provider payloads are modelled as tagged        *)
(* values [k, v]: k = "int" with the integer v, k = "none" for a missing   *)
(* key or None, k = "str" for a non-numeric value.  Strings built with     *)
(* f-strings are modelled as tuples of their parts.                        *)
(***************************************************************************)
EXTENDS Integers, Sequences, FiniteSets, TLC

VARIABLES
    now,        \* the last reading of time.time(), whole seconds
    pc,         \* position of main(): "loop", "resolve", "top", "recent", "plain", "ret", "done"
    targets,    \* main: the parsed target list
    base_req,   \* main: the base ScrapeRequest (target "")
    idx,        \* main: position of the for loop in targets
    req,        \* scrape_instagram: the request of the current run
    preq,       \* _paginate: the request handed to the current Paginator run
    pg,         \* _paginate: locals (kept_rows, fetched, kept, requests, cursor, endpoint, cutoff_ts, resp, brk)
    posts,      \* scrape_instagram: posts
    top_meta,   \* scrape_instagram: meta of the finished top run
    res,        \* the result scrape_instagram returned for the current target
    all_posts,  \* main: merged rows
    meta,       \* main: merged meta
    warnings,   \* main: st.warning calls of the batch loop, in order
    fetchLog,   \* history: provider calls issued by the current single-target run
    results,    \* history: the result of every finished single-target run, in target order
    tk,         \* fetch_hashtag_medias of scrapers/tiktok.py: locals and position
    adapter     \* the provider: "free" (any response at every call) or a fixed feed per endpoint

vars == <<now, pc, targets, base_req, idx, req, preq, pg, posts, top_meta, res,
          all_posts, meta, warnings, fetchLog, results, tk, adapter>>

-----------------------------------------------------------------------------
(* Bounds of the model *)

MaxPosts == 2       \* largest max_posts of a request
MaxRequests == 2    \* largest max_requests of a request
MaxPageLen == 2     \* most raw items on one provider page
MaxTargets == 2     \* most targets in one batch
MaxTicks == 1       \* seconds the clock may advance during a batch
MaxFeedPages == 2   \* most pages of a fixed feed
MaxRawLen == 3      \* most characters typed into the Target field
MaxTikFetched == 3  \* most TikTok items a hashtag run is followed through

(* Program constants *)

SecondsPerDay == 86400

Clock0 == 10 * SecondsPerDay

-----------------------------------------------------------------------------
(* Python values *)

NoneV == [k |-> "none", v |-> 0]
IntV(n) == [k |-> "int", v |-> n]
StrV == [k |-> "str", v |-> 0]

IsInt(x) == x.k = "int"

\* Python truthiness of a tagged value: None and 0 are falsy
Truthy(x) == IF x.k = "int" THEN x.v # 0 ELSE x.k = "str"

\* a or b
PyOr(a, b) == IF Truthy(a) THEN a ELSE b

-----------------------------------------------------------------------------
(* Raw items and provider responses *)

\* A raw item: code "" stands for a missing, empty or non-string code.
Item(code, pk, ts, ts2, plays, views, likes, comments) ==
    [code |-> code, pk |-> pk, username |-> "u",
     taken_at_ts |-> ts, taken_at_timestamp |-> ts2,
     play_count |-> plays, view_count |-> views,
     like_count |-> likes, comment_count |-> comments,
     like_and_view_counts_disabled |-> FALSE]

\* An entry of a response's items: a dict, a nested list of dicts, or junk.
DictEntry(it) == [t |-> "dict", d |-> <<it>>]
ListEntry(its) == [t |-> "list", d |-> its]

\* A response: a dict with items and cursor fields ("" = key absent), or a bare list.
DictResp(entries, max_id) ==
    [kind |-> "dict", items |-> entries, max_id |-> max_id, next_max_id |-> "",
     end_cursor |-> "", next_end_cursor |-> ""]
ListResp(entries) ==
    [kind |-> "list", items |-> entries, max_id |-> "", next_max_id |-> "",
     end_cursor |-> "", next_end_cursor |-> ""]

RECURSIVE FlattenEntries(_)
FlattenEntries(es) ==
    IF es = <<>> THEN <<>>
    ELSE (IF Head(es).t \in {"dict", "list"} THEN Head(es).d ELSE <<>>)
         \o FlattenEntries(Tail(es))

\* _flatten_items
FlattenItems(resp) ==
    IF resp.kind \in {"dict", "list"} THEN FlattenEntries(resp.items) ELSE <<>>

\* _cursor: the first non-empty string of the four cursor keys, "" for None
CursorOf(resp) ==
    IF resp.kind # "dict" THEN ""
    ELSE IF resp.max_id # "" THEN resp.max_id
    ELSE IF resp.next_max_id # "" THEN resp.next_max_id
    ELSE IF resp.end_cursor # "" THEN resp.end_cursor
    ELSE IF resp.next_end_cursor # "" THEN resp.next_end_cursor
    ELSE ""

\* _ts: NoneV or IntV(positive)
Ts(item) ==
    LET v == PyOr(item.taken_at_ts, item.taken_at_timestamp)
    IN IF IsInt(v) /\ v.v > 0 THEN v ELSE NoneV

\* _plays
Plays(item) ==
    IF IsInt(item.play_count) THEN item.play_count.v
    ELSE IF IsInt(item.view_count) THEN item.view_count.v
    ELSE 0

\* _i
IntField(item, key) == IF IsInt(item[key]) THEN item[key].v ELSE 0

\* _date_str: the local calendar day of ts, or "Unknown"
DateStr(ts) == IF Truthy(ts) THEN <<"day", ts.v \div SecondsPerDay>> ELSE <<"Unknown", 0>>

NoRow == [code |-> ""]

\* Row without the test of the code
Row_NoCodeCheck(item, source, discovery) ==
    [id |-> item.pk,
     code |-> item.code,
     url |-> <<"https://www.instagram.com/p/", item.code, "/">>,
     username |-> item.username,
     date_ts |-> IF Truthy(Ts(item)) THEN Ts(item).v ELSE 0,
     date |-> DateStr(Ts(item)),
     plays |-> Plays(item),
     likes |-> IntField(item, "like_count"),
     comments |-> IntField(item, "comment_count"),
     engagement |-> Plays(item) + IntField(item, "like_count") + IntField(item, "comment_count"),
     metrics_disabled |-> item.like_and_view_counts_disabled,
     source |-> source,
     discovery |-> discovery]

\* _row: NoRow stands for None
Row(item, source, discovery) ==
    IF item.code = "" THEN NoRow
    ELSE LET ts == Ts(item)
             plays == Plays(item)
             likes == IntField(item, "like_count")
             comments == IntField(item, "comment_count")
         IN [id |-> item.pk,
             code |-> item.code,
             url |-> <<"https://www.instagram.com/p/", item.code, "/">>,
             username |-> item.username,
             date_ts |-> IF Truthy(ts) THEN ts.v ELSE 0,
             date |-> DateStr(ts),
             plays |-> plays,
             likes |-> likes,
             comments |-> comments,
             engagement |-> plays + likes + comments,
             metrics_disabled |-> item.like_and_view_counts_disabled,
             source |-> source,
             discovery |-> discovery]

\* Passes that drops an item dated exactly at the cutoff
Passes_StrictCutoff(item, r, cutoff_ts) ==
    LET ts == Ts(item)
    IN /\ IF ts = NoneV THEN r.include_unknown_dates ELSE ts.v > cutoff_ts
       /\ ~(Plays(item) < r.min_plays)
       /\ ~(IntField(item, "like_count") < r.min_likes)
       /\ ~(IntField(item, "comment_count") < r.min_comments)

\* Passes with the likes floor turned into a ceiling
Passes_LikesCeiling(item, r, cutoff_ts) ==
    LET ts == Ts(item)
    IN /\ IF ts = NoneV THEN r.include_unknown_dates ELSE ~(ts.v < cutoff_ts)
       /\ ~(Plays(item) < r.min_plays)
       /\ ~(IntField(item, "like_count") > r.min_likes)
       /\ ~(IntField(item, "comment_count") < r.min_comments)

\* _passes
Passes(item, r, cutoff_ts) ==
    LET ts == Ts(item)
    IN /\ IF ts = NoneV THEN r.include_unknown_dates ELSE ~(ts.v < cutoff_ts)
       /\ ~(Plays(item) < r.min_plays)
       /\ ~(IntField(item, "like_count") < r.min_likes)
       /\ ~(IntField(item, "comment_count") < r.min_comments)

-----------------------------------------------------------------------------
(* ScrapeRequest and the Paginator (_paginate) *)

ScrapeRequest(method, target, feed, max_posts, max_requests, days_ago, min_plays, min_likes, min_comments, include_unknown_dates, debug) ==
    [method |-> method, target |-> target, feed |-> feed,
     max_posts |-> max_posts, max_requests |-> max_requests,
     days_ago |-> days_ago, min_plays |-> min_plays, min_likes |-> min_likes,
     min_comments |-> min_comments,
     include_unknown_dates |-> include_unknown_dates, debug |-> debug]

\* resp before the first fetch
NoResp ==
    [kind |-> "unset", items |-> <<>>, max_id |-> "", next_max_id |-> "",
     end_cursor |-> "", next_end_cursor |-> ""]

\* int(time.time() - req.days_ago * 86400)
CutoffTs(r, t) == t - r.days_ago * SecondsPerDay

\* the locals of _paginate before the loop; cursor "" and endpoint "" stand for None
PaginateInit(r, t) ==
    [kept_rows |-> <<>>, fetched |-> 0, kept |-> 0, requests |-> 0,
     cursor |-> "", endpoint |-> "", cutoff_ts |-> CutoffTs(r, t), brk |-> FALSE,
     resp |-> NoResp]

\* LoopCond without the request budget
LoopCond_NoBudget(st, r) == ~st.brk /\ st.kept < r.max_posts

\* LoopCond without the quota
LoopCond_NoQuota(st, r) == ~st.brk /\ st.requests < r.max_requests

\* the while condition of _paginate (brk: the loop was left by break)
LoopCond(st, r) ==
    ~st.brk /\ st.kept < r.max_posts /\ st.requests < r.max_requests

\* KeepItem without the quota test of the for loop
KeepItem_NoQuota(st, it, r, source, discovery) ==
    IF Passes(it, r, st.cutoff_ts) /\ Row(it, source, discovery) # NoRow
    THEN [st EXCEPT !.kept_rows = Append(@, Row(it, source, discovery)),
                    !.kept = @ + 1]
    ELSE st

\* KeepItem that puts the new row first
KeepItem_Prepend(st, it, r, source, discovery) ==
    IF st.kept >= r.max_posts THEN st
    ELSE IF Passes(it, r, st.cutoff_ts) /\ Row(it, source, discovery) # NoRow
         THEN [st EXCEPT !.kept_rows = <<Row(it, source, discovery)>> \o @,
                         !.kept = @ + 1]
         ELSE st

\* KeepItem that numbers the rows it keeps
KeepItem_Numbered(st, it, r, source, discovery) ==
    IF st.kept >= r.max_posts THEN st
    ELSE IF Passes(it, r, st.cutoff_ts) /\ Row(it, source, discovery) # NoRow
         THEN [st EXCEPT !.kept_rows = Append(@, [Row(it, source, discovery)
                                                    EXCEPT !.id = IntV(st.kept)]),
                         !.kept = @ + 1]
         ELSE st

\* one item of the for loop: kept only below the quota, when it passes and has a row
KeepItem(st, it, r, source, discovery) ==
    IF st.kept >= r.max_posts THEN st
    ELSE IF Passes(it, r, st.cutoff_ts) /\ Row(it, source, discovery) # NoRow
         THEN [st EXCEPT !.kept_rows = Append(@, Row(it, source, discovery)),
                         !.kept = @ + 1]
         ELSE st

\* KeepItems that walks the page from its last item
RECURSIVE KeepItems_Reversed(_, _, _, _, _)
KeepItems_Reversed(st, items, r, source, discovery) ==
    IF items = <<>> THEN st
    ELSE KeepItems_Reversed(KeepItem(st, items[Len(items)], r, source, discovery),
                            SubSeq(items, 1, Len(items) - 1), r, source, discovery)

\* the for loop over the items of one page
RECURSIVE KeepItems(_, _, _, _, _)
KeepItems(st, items, r, source, discovery) ==
    IF items = <<>> THEN st
    ELSE KeepItems(KeepItem(st, Head(items), r, source, discovery),
                   Tail(items), r, source, discovery)

\* BreakAfter that leaves the loop after every page
BreakAfter_Always(cursor, items) == TRUE

\* BreakAfter without the test of the items
BreakAfter_NoCursorOnly(cursor, items) == cursor = ""

\* BreakAfter without the cursor test
BreakAfter_EmptyPageOnly(cursor, items) == items = <<>>

\* the break test after a page
BreakAfter(cursor, items) == cursor = "" \/ items = <<>>

\* PageStep that leaves the cursor as it was
PageStep_StaleCursor(st, resp, ep, r, source, discovery) ==
    [KeepItems([st EXCEPT !.resp = resp,
                          !.endpoint = ep,
                          !.requests = @ + 1,
                          !.fetched = @ + Len(FlattenItems(resp))],
               FlattenItems(resp), r, source, discovery)
        EXCEPT !.brk = BreakAfter(CursorOf(resp), FlattenItems(resp))]

\* PageStep that counts a request for every item of the page
PageStep_RequestPerItem(st, resp, ep, r, source, discovery) ==
    [KeepItems([st EXCEPT !.resp = resp,
                          !.endpoint = ep,
                          !.requests = @ + Len(FlattenItems(resp)),
                          !.fetched = @ + Len(FlattenItems(resp))],
               FlattenItems(resp), r, source, discovery)
        EXCEPT !.cursor = CursorOf(resp),
               !.brk = BreakAfter(CursorOf(resp), FlattenItems(resp))]

\* one iteration of the while loop, given the response and endpoint fetch_fn returned
PageStep(st, resp, ep, r, source, discovery) ==
    LET items == FlattenItems(resp)
        st1 == [st EXCEPT !.resp = resp,
                          !.endpoint = ep,
                          !.requests = @ + 1,
                          !.fetched = @ + Len(items)]
        st2 == KeepItems(st1, items, r, source, discovery)
    IN [st2 EXCEPT !.cursor = CursorOf(resp),
                   !.brk = BreakAfter(CursorOf(resp), items)]

\* PaginateMeta that reports the fetched count as kept
PaginateMeta_KeptFetched(st) ==
    [endpoint |-> st.endpoint, cursor |-> st.cursor, fetched |-> st.fetched,
     kept |-> st.fetched, requests |-> st.requests]

\* the meta dict _paginate returns
PaginateMeta(st) ==
    [endpoint |-> st.endpoint, cursor |-> st.cursor, fetched |-> st.fetched,
     kept |-> st.kept, requests |-> st.requests]

NoMeta == [endpoint |-> "", cursor |-> "", fetched |-> 0, kept |-> 0, requests |-> 0]
NoPg == PaginateInit([days_ago |-> 0], 0)

-----------------------------------------------------------------------------
(* scrape_instagram *)

IsAuto(feed) == feed = "auto_(top_to_recent)"      \* req.feed.startswith("auto")

HashtagFeeds == {"top", "recent", "clips"}
UserFeeds == {"posts", "clips"}

\* the endpoint label each fetch adapter returns
EndpointOf(method, feed) ==
    IF method = "username"
    THEN (IF feed = "posts" THEN "user_medias_chunk_v1" ELSE "user_clips_chunk_v1")
    ELSE CASE feed = "top" -> "hashtag_medias_top_chunk_v1"
           [] feed = "recent" -> "hashtag_medias_top_recent_chunk_v1"
           [] OTHER -> "hashtag_medias_clips_chunk_v1"

\* f"user_{req.feed}" and f"hashtag_{req.feed}"
SourceOf(method, feed) ==
    IF method = "username"
    THEN (IF feed = "posts" THEN "user_posts" ELSE "user_clips")
    ELSE CASE feed = "top" -> "hashtag_top"
           [] feed = "recent" -> "hashtag_recent"
           [] OTHER -> "hashtag_clips"

\* f"@{req.target}" and f"#{req.target}"
DiscoveryOf(method, target) ==
    IF method = "username" THEN <<"@", target>> ELSE <<"#", target>>

\* ScrapeRequest(**{**req.__dict__, "feed": "top"})
TopReq(r) == [r EXCEPT !.feed = "top"]

\* remaining = req.max_posts - len(posts)
Remaining(r, ps) == r.max_posts - Len(ps)

\* RecentReq without the max_posts override
RecentReq_FullQuota(r, ps) == [r EXCEPT !.feed = "recent"]

\* ScrapeRequest(**{**req.__dict__, "feed": "recent", "max_posts": remaining})
RecentReq(r, ps) == [r EXCEPT !.feed = "recent", !.max_posts = Remaining(r, ps)]

\* NeedsFallback with <= for <
NeedsFallback_AtQuota(r, ps) == Len(ps) <= r.max_posts

\* if len(posts) < req.max_posts
NeedsFallback(r, ps) == Len(ps) < r.max_posts

\* MergedMeta that reports the counters and the cursor of the recent run alone
MergedMeta_RecentOnly(tm, rm, ps) ==
    [endpoint |-> <<tm.endpoint, " + ", rm.endpoint>>,
     cursor |-> rm.cursor,
     fetched |-> rm.fetched,
     kept |-> Len(ps),
     requests |-> rm.requests]

\* the merged meta of a fallback run
MergedMeta(tm, rm, ps) ==
    [endpoint |-> <<tm.endpoint, " + ", rm.endpoint>>,
     cursor |-> IF rm.cursor # "" THEN rm.cursor ELSE tm.cursor,
     fetched |-> tm.fetched + rm.fetched,
     kept |-> Len(ps),
     requests |-> tm.requests + rm.requests]

\* SuccessResult that never reports a fallback
SuccessResult_NoFlag(r, ps, m, effective_feed, fallback_used) ==
    [kind |-> "ok",
     profile_info |-> IF r.method = "username" THEN <<"Username", r.target>> ELSE <<>>,
     posts |-> ps,
     has_meta |-> TRUE,
     meta |-> [endpoint |-> m.endpoint, cursor |-> m.cursor, fetched |-> m.fetched,
               kept |-> m.kept, requests |-> m.requests,
               requested |-> r.max_posts, method |-> r.method, target |-> r.target,
               effective_feed |-> effective_feed, fallback_used |-> FALSE],
     error |-> "",
     debug |-> FALSE]

\* meta.update({...}) and the returned dict
SuccessResult(r, ps, m, effective_feed, fallback_used) ==
    [kind |-> "ok",
     profile_info |-> IF r.method = "username" THEN <<"Username", r.target>> ELSE <<>>,
     posts |-> ps,
     has_meta |-> TRUE,
     meta |-> [endpoint |-> m.endpoint, cursor |-> m.cursor, fetched |-> m.fetched,
               kept |-> m.kept, requests |-> m.requests,
               requested |-> r.max_posts, method |-> r.method, target |-> r.target,
               effective_feed |-> effective_feed, fallback_used |-> fallback_used],
     error |-> "",
     debug |-> FALSE]

\* ErrorResult that reports a fixed text for the message of the exception
ErrorResult_NoMessage(r, msg) ==
    [kind |-> "err", profile_info |-> <<>>, posts |-> <<>>, has_meta |-> FALSE,
     meta |-> [endpoint |-> "", cursor |-> "", fetched |-> 0, kept |-> 0, requests |-> 0,
               requested |-> 0, method |-> "", target |-> "",
               effective_feed |-> "", fallback_used |-> FALSE],
     error |-> "error",
     debug |-> r.debug]

\* the except branch: no rows, the message, the traceback when req.debug
ErrorResult(r, msg) ==
    [kind |-> "err", profile_info |-> <<>>, posts |-> <<>>, has_meta |-> FALSE,
     meta |-> [endpoint |-> "", cursor |-> "", fetched |-> 0, kept |-> 0, requests |-> 0,
               requested |-> 0, method |-> "", target |-> "",
               effective_feed |-> "", fallback_used |-> FALSE],
     error |-> msg,
     debug |-> r.debug]

NoRes == ErrorResult([debug |-> FALSE], "none")

-----------------------------------------------------------------------------
(* The provider: the responses a call may return *)

Fresh == IntV(Clock0)
AtCutoff == IntV(Clock0 - SecondsPerDay)

ItemA == Item("a", IntV(1), Fresh, NoneV, IntV(3), NoneV, IntV(1), IntV(0))
ItemB == Item("b", IntV(2), StrV, IntV(0), NoneV, IntV(2), IntV(2), IntV(1))
ItemNoCode == Item("", NoneV, Fresh, NoneV, IntV(1), NoneV, IntV(1), IntV(0))
ItemEdge == Item("e", IntV(3), AtCutoff, NoneV, IntV(1), NoneV, IntV(1), IntV(0))
ItemLow == Item("l", IntV(4), Fresh, NoneV, IntV(1), NoneV, StrV, IntV(0))

ItemNeg == Item("n", IntV(5), Fresh, NoneV, IntV(0), IntV(5), IntV(-1), NoneV)

\* ItemNeg carries a negative like_count, a play_count of 0 beside a view_count
\* and no comment_count
\* ItemA is fresh, ItemB undated, ItemNoCode has no code, ItemEdge is dated at the
\* cutoff of a run started at Clock0 with days_ago = 1, ItemLow has no likes
FreeItems == {ItemA, ItemNoCode, ItemEdge, ItemLow}
FeedItems == {ItemA, ItemLow}

SeqsUpTo(S, n) == UNION {[1..k -> S] : k \in 0..n}

Entries(items) == [i \in 1..Len(items) |-> DictEntry(items[i])]

CursorNames == <<"c1", "c2", "c3", "c4">>
Cursors == {"c1", "c2"}

\* pages of at most MaxPageLen items of a catalogue, with any cursor
Pages(catalogue, cursors) ==
    {DictResp(Entries(its), c) : its \in SeqsUpTo(catalogue, MaxPageLen), c \in cursors \cup {""}}

\* other response shapes: a bare list, nested lists and junk entries, a cursor
\* under the later keys only, a response that is neither dict nor list
OddResponses ==
         {ListResp(<<DictEntry(ItemA), ListEntry(<<ItemB, ItemA>>)>>),
          [DictResp(<<ListEntry(<<ItemB>>), [t |-> "other", d |-> <<>>]>>, "")
              EXCEPT !.end_cursor = "c1", !.next_end_cursor = "c2"],
          [kind |-> "other", items |-> <<>>, max_id |-> "", next_max_id |-> "",
           end_cursor |-> "", next_end_cursor |-> ""]}

\* messages str(e) of the exceptions a provider call may raise
ErrMsgs == {"", "boom"}

\* a fixed feed: page i is served for the cursor of page i - 1 and carries the
\* cursor of page i + 1 when there is one
CursorIndex(c) == IF c = "" THEN 0 ELSE CHOOSE i \in 1..Len(CursorNames) : CursorNames[i] = c

FeedResponse(pages, c) ==
    LET i == CursorIndex(c) + 1
    IN IF i <= Len(pages)
       THEN DictResp(Entries(pages[i]), IF i < Len(pages) THEN CursorNames[i] ELSE "")
       ELSE DictResp(<<>>, "")

\* a provider that may answer anything, one that serves plain pages of a small
\* catalogue, and one whose recent feed is a fixed list of pages
FreeAdapter == [mode |-> "free", items |-> FreeItems, cursors |-> Cursors, recent |-> <<>>]
PlainAdapter(catalogue, cursors) ==
    [mode |-> "plain", items |-> catalogue, cursors |-> cursors, recent |-> <<>>]
FixedAdapter(catalogue, cursors, pages) ==
    [mode |-> "fixed", items |-> catalogue, cursors |-> cursors, recent |-> pages]

\* what the provider may answer to a page fetch of feed with cursor c
Responses(ad, feed, c) ==
    IF ad.mode = "fixed" /\ feed = "recent"
    THEN {FeedResponse(ad.recent, c)}
    ELSE Pages(ad.items, ad.cursors) \cup (IF ad.mode = "free" THEN OddResponses ELSE {})

MayRaise(ad, feed) == ~(ad.mode = "fixed" /\ feed = "recent")

\* _paginate run to its end from the locals st against a fixed feed
RECURSIVE PaginateFrom(_, _, _, _, _, _)
PaginateFrom(st, pages, r, ep, source, discovery) ==
    IF ~LoopCond(st, r) THEN st
    ELSE PaginateFrom(PageStep(st, FeedResponse(pages, st.cursor), ep, r, source, discovery),
                      pages, r, ep, source, discovery)

\* _paginate called at clock reading t for the hashtag feed r.feed of a fixed feed
Paginate(pages, r, t) ==
    PaginateFrom(PaginateInit(r, t), pages, r, EndpointOf(r.method, r.feed),
                 SourceOf(r.method, r.feed), DiscoveryOf(r.method, r.target))

-----------------------------------------------------------------------------
(* main(): the batch loop state *)

\* meta of main before the loop
BatchMeta0(b, ts) ==
    [method |-> b.method, targets |-> ts, effective_feed |-> b.feed,
     requested |-> b.max_posts, total_fetched |-> 0, total_kept |-> 0,
     total_requests |-> 0, fallback_used |-> FALSE]

\* ScrapeRequest(**{**base_req.__dict__, "target": t})
TargetReq(b, t) == [b EXCEPT !.target = t]

\* p["hashtag"] = f"#{t}" for every row
TagRow(row, t) ==
    [f \in DOMAIN row \cup {"hashtag"} |-> IF f = "hashtag" THEN <<"#", t>> ELSE row[f]]
TagRows(ps, t) == [i \in 1..Len(ps) |-> TagRow(ps[i], t)]

\* res.get("error") is truthy
HasError(r) == r.error # ""

\* m.get(key, default) on res.get("meta", {})
MetaGet(r, key, default) == IF r.has_meta THEN r.meta[key] ELSE default

\* AddMeta with = for += on total_requests
AddMeta_Overwrite(m, r) ==
    [m EXCEPT !.total_fetched = @ + MetaGet(r, "fetched", 0),
              !.total_kept = @ + MetaGet(r, "kept", Len(r.posts)),
              !.total_requests = MetaGet(r, "requests", 0),
              !.fallback_used = @ \/ MetaGet(r, "fallback_used", FALSE)]

\* the four += / |= lines of the loop body
AddMeta(m, r) ==
    [m EXCEPT !.total_fetched = @ + MetaGet(r, "fetched", 0),
              !.total_kept = @ + MetaGet(r, "kept", Len(r.posts)),
              !.total_requests = @ + MetaGet(r, "requests", 0),
              !.fallback_used = @ \/ MetaGet(r, "fallback_used", FALSE)]

\* ExtendPosts that puts the new rows first
ExtendPosts_Front(all, r, t) == TagRows(r.posts, t) \o all

\* all_posts.extend(posts) after tagging
ExtendPosts(all, r, t) == all \o TagRows(r.posts, t)

\* st.warning(f"{t}: {res['error']}")
WarningOf(t, r) == <<t, ": ", r.error>>

-----------------------------------------------------------------------------
(* The Target field: strings are sequences of characters *)

\* the characters typed: a word character, one that is none, white space, the
\* two prefixes and the separator
Alphabet == {"a", "-", " ", "#", "@", ","}
WordChars == {"a"}          \* [A-Za-z0-9_]
Whitespace == {" "}

\* s.lstrip(chars)
RECURSIVE LStrip(_, _)
LStrip(s, chars) ==
    IF s # <<>> /\ Head(s) \in chars THEN LStrip(Tail(s), chars) ELSE s

\* s.rstrip(chars)
RECURSIVE RStrip(_, _)
RStrip(s, chars) ==
    IF s # <<>> /\ s[Len(s)] \in chars THEN RStrip(SubSeq(s, 1, Len(s) - 1), chars) ELSE s

\* s.strip()
Strip(s) == RStrip(LStrip(s, Whitespace), Whitespace)

\* s.split(sep)
RECURSIVE Split(_, _)
Split(s, sep) ==
    IF \A i \in DOMAIN s : s[i] # sep THEN <<s>>
    ELSE LET k == CHOOSE i \in DOMAIN s : s[i] = sep /\ \A j \in 1..(i - 1) : s[j] # sep
         IN <<SubSeq(s, 1, k - 1)>> \o Split(SubSeq(s, k + 1, Len(s)), sep)

\* re.fullmatch(r"[A-Za-z0-9_]+", t)
FullMatchWord(t) == t # <<>> /\ \A i \in DOMAIN t : t[i] \in WordChars

\* the for loop of parse_targets over the stripped pieces: the targets kept
RECURSIVE HashtagTargets(_)
HashtagTargets(xs) ==
    IF xs = <<>> THEN <<>>
    ELSE LET x == Strip(Head(xs))
             t == Strip(LStrip(x, {"#"}))
         IN (IF x # <<>> /\ FullMatchWord(t) THEN <<t>> ELSE <<>>)
            \o HashtagTargets(Tail(xs))

\* parse_targets of instagram_app.py: the targets list
ParseTargets(method, raw) ==
    IF method = "hashtag"
    THEN HashtagTargets(Split(Strip(raw), ","))
    ELSE LET u == Strip(LStrip(Strip(raw), {"@"}))
         IN IF u # <<>> THEN <<u>> ELSE <<>>

\* app.py: t = target.strip().lstrip("#").lstrip("@"), one target or none
AppTargets(raw) ==
    LET t == LStrip(LStrip(Strip(raw), {"#"}), {"@"})
    IN IF t # <<>> THEN <<t>> ELSE <<>>

-----------------------------------------------------------------------------
(* Initial states *)

TargetNames == {"dog", "nasa"}

NonEmptySeqs(S, n) == UNION {[1..k -> S] : k \in 1..n}

\* the requests the sidebar and direct callers can build; "posts" is no hashtag
\* feed and "top" is no username feed
FeedsOf(method) ==
    IF method = "hashtag" THEN HashtagFeeds \cup {"auto_(top_to_recent)", "posts"}
    ELSE UserFeeds \cup {"top"}

BaseReqs(methods, quotas, budgets) ==
    {ScrapeRequest(m, "", f, q, b, 1, 0, 1, 0, TRUE, FALSE) :
        m \in methods, f \in FeedsOf("hashtag") \cup FeedsOf("username"),
        q \in quotas, b \in budgets}

ValidBase(b) == b.feed \in FeedsOf(b.method)

-----------------------------------------------------------------------------
(* The TikTok hashtag pipeline of scrapers/tiktok.py *)

Filters(last_days, min_views, min_likes, min_comments) == [last_days |-> last_days, min_views |-> min_views, min_likes |-> min_likes, min_comments |-> min_comments]

\* a raw item of /hashtag/medias: id, createTime, stats and author present
TikItem(id, ct, plays, diggs, comments) ==
    [id |-> id, createTime |-> ct,
     stats |-> [playCount |-> plays, diggCount |-> diggs, commentCount |-> comments],
     author |-> [uniqueId |-> "u"]]

TikHit == TikItem("h", Clock0, 3, 1, 0)
TikLow == TikItem("l", Clock0, 0, 0, 0)
TikOld == TikItem("o", Clock0 - 2 * SecondsPerDay, 3, 1, 0)

TikItems == {TikHit, TikLow, TikOld}

\* what the provider's "cursor" key may hold: nothing or a position
TikCursors == {NoneV, IntV(1)}

\* every page LamatokClient.get can return for /hashtag/medias
TikPages ==
    {[itemList |-> s, hasMore |-> h, cursor |-> c] :
        s \in SeqsUpTo(TikItems, MaxPageLen), h \in BOOLEAN, c \in TikCursors}

PassesFilters(item, cutoff_ts, f) ==
    /\ ~(item.createTime < cutoff_ts)
    /\ ~(item.stats.playCount < f.min_views)
    /\ ~(item.stats.diggCount < f.min_likes)
    /\ ~(item.stats.commentCount < f.min_comments)

\* normalize: authorStats and poi are absent from the items of the model
Normalize(item, hashtag) ==
    [hashtag |-> hashtag,
     post_id |-> item.id,
     video_url |-> <<"https://www.tiktok.com/@", item.author.uniqueId, "/video/", item.id>>,
     play_count |-> item.stats.playCount,
     like_count |-> item.stats.diggCount,
     comment_count |-> item.stats.commentCount,
     create_time |-> item.createTime,
     username |-> item.author.uniqueId,
     follower_count |-> 0,
     profile_url |-> <<"https://www.tiktok.com/@", item.author.uniqueId>>,
     region |-> NoneV]

\* fetch_hashtag_medias before its for loop; pc is "fetch" while
\* iter_hashtag_medias is about to call client.get
TikStart(hashtag, limit, f, t) ==
    [pc |-> "fetch", hashtag |-> hashtag, limit |-> limit, filters |-> f,
     cutoff_ts |-> t - f.last_days * SecondsPerDay,
     results |-> <<>>, fetched |-> 0, collected |-> 0, cursor |-> NoneV, brk |-> FALSE]

\* no TikTok run
NoTk == [TikStart("", 0, Filters(0, 0, 0, 0), 0) EXCEPT !.pc = "off"]

\* the body of the for loop of fetch_hashtag_medias for one yielded item
TakeItem(st, item) ==
    IF st.brk THEN st
    ELSE LET c == [st EXCEPT !.fetched = @ + 1, !.collected = @ + 1]
         IN IF ~PassesFilters(item, st.cutoff_ts, st.filters) THEN c
            ELSE LET r == Append(c.results, Normalize(item, st.hashtag))
                 IN [c EXCEPT !.results = r, !.brk = Len(r) >= st.limit]

RECURSIVE TakeItems(_, _, _)
TakeItems(st, items, k) ==
    IF k > Len(items) THEN st ELSE TakeItems(TakeItem(st, items[k]), items, k + 1)

\* one turn of the while loop of iter_hashtag_medias with the consumer's loop
\* body run on every item it yields: the break of the consumer ends the run,
\* a falsy hasMore ends the generator, otherwise the cursor moves on
TikPage(st, data) ==
    LET c == TakeItems(st, data.itemList, 1)
    IN IF c.brk \/ ~data.hasMore THEN [c EXCEPT !.pc = "done"]
       ELSE [c EXCEPT !.cursor = data.cursor]

-----------------------------------------------------------------------------
InitWith(b, ts, ad) ==
    /\ now = Clock0
    /\ tk = NoTk
    /\ pc = "loop"
    /\ targets = ts
    /\ base_req = b
    /\ idx = 1
    /\ req = b
    /\ preq = b
    /\ pg = NoPg
    /\ posts = <<>>
    /\ top_meta = NoMeta
    /\ res = NoRes
    /\ all_posts = <<>>
    /\ meta = BatchMeta0(b, ts)
    /\ warnings = <<>>
    /\ fetchLog = <<>>
    /\ results = <<>>
    /\ adapter = ad

\* one target, any request, a provider that may answer anything
Init ==
    \E b \in BaseReqs({"hashtag", "username"}, 0..MaxPosts, 0..MaxRequests) :
        /\ ValidBase(b)
        /\ InitWith(b, <<"dog">>, FreeAdapter)

-----------------------------------------------------------------------------
(* Actions *)

Running == pc \in {"top", "recent", "plain"}

\* the feed the current Paginator run fetches
CurFeed == preq.feed

\* a record of the history: the provider call, the cursor it was given, whether
\* it raised and the message str(e) of what it raised
Call(name, c, raised, msg) == [call |-> name, cursor |-> c, raised |-> raised, msg |-> msg]

\* OnRaise that stays in the loop
OnRaise_Retry(p) == p

\* no try in _paginate or _resolve_user_id: an exception of a provider call leaves
\* the run at p for the except branch of scrape_instagram, which returns
OnRaise(p) == "ret"

\* time.time() as read at the start of a _paginate call: any value from the last
\* reading on
ClockReadings == now..(Clock0 + MaxTicks)

\* main: for t in targets: req = ...; cached_scrape(req) enters scrape_instagram,
\* which runs up to its first provider call
StartTarget ==
    /\ pc = "loop"
    /\ idx <= Len(targets)
    /\ LET r == TargetReq(base_req, targets[idx])
       IN /\ req' = r
          /\ posts' = <<>>
          /\ top_meta' = NoMeta
          /\ fetchLog' = <<>>
          /\ IF r.method = "username"
             THEN /\ pc' = "resolve"
                  /\ preq' = r
                  /\ pg' = NoPg
                  /\ res' = NoRes
                  /\ UNCHANGED now
             ELSE IF IsAuto(r.feed)
             THEN /\ pc' = "top"
                  /\ preq' = TopReq(r)
                  /\ now' \in ClockReadings
                  /\ pg' = PaginateInit(TopReq(r), now')
                  /\ res' = NoRes
             ELSE IF r.feed \in HashtagFeeds
             THEN /\ pc' = "plain"
                  /\ preq' = r
                  /\ now' \in ClockReadings
                  /\ pg' = PaginateInit(r, now')
                  /\ res' = NoRes
             ELSE /\ pc' = "ret"
                  /\ preq' = r
                  /\ pg' = NoPg
                  /\ res' = ErrorResult(r, "Unknown hashtag feed")
                  /\ UNCHANGED now
    /\ UNCHANGED <<tk, targets, base_req, idx, all_posts, meta, warnings, results, adapter>>

\* _resolve_user_id returns, then the feed check and the start of _paginate
ResolveUser ==
    /\ pc = "resolve"
    /\ fetchLog' = Append(fetchLog, Call("user_by_username_v1", "", FALSE, ""))
    /\ IF req.feed \notin UserFeeds
       THEN /\ pc' = "ret"
            /\ res' = ErrorResult(req, "Username feed must be Posts or Clips")
            /\ UNCHANGED <<pg, now>>
       ELSE /\ pc' = "plain"
            /\ now' \in ClockReadings
            /\ pg' = PaginateInit(req, now')
            /\ UNCHANGED res
    /\ UNCHANGED <<tk, targets, base_req, idx, req, preq, posts, top_meta,
                   all_posts, meta, warnings, results, adapter>>

\* _resolve_user_id raises: the client's exception or one of its ValueErrors
ResolveRaises ==
    /\ pc = "resolve"
    /\ \E msg \in ErrMsgs \cup {"User ID not found", "Unexpected user response"} :
          /\ res' = ErrorResult(req, msg)
          /\ fetchLog' = Append(fetchLog, Call("user_by_username_v1", "", TRUE, msg))
    /\ pc' = OnRaise(pc)
    /\ UNCHANGED <<now, tk, targets, base_req, idx, req, preq, pg, posts, top_meta,
                   all_posts, meta, warnings, results, adapter>>

\* _paginate: one iteration of the while loop
Fetch ==
    /\ Running
    /\ LoopCond(pg, preq)
    /\ \E resp \in Responses(adapter, CurFeed, pg.cursor) :
          /\ pg' = PageStep(pg, resp, EndpointOf(req.method, CurFeed), preq,
                            SourceOf(req.method, CurFeed),
                            DiscoveryOf(req.method, req.target))
    /\ fetchLog' = Append(fetchLog, Call(EndpointOf(req.method, CurFeed), pg.cursor, FALSE, ""))
    /\ UNCHANGED <<now, pc, tk, targets, base_req, idx, req, preq, posts, top_meta, res,
                   all_posts, meta, warnings, results, adapter>>

\* _paginate: fetch_fn raises; scrape_instagram's except branch returns the error
FetchRaises ==
    /\ Running
    /\ LoopCond(pg, preq)
    /\ MayRaise(adapter, CurFeed)
    /\ \E msg \in ErrMsgs :
          /\ res' = ErrorResult(req, msg)
          /\ fetchLog' = Append(fetchLog, Call(EndpointOf(req.method, CurFeed), pg.cursor, TRUE, msg))
    /\ pc' = OnRaise(pc)
    /\ pg' = NoPg
    /\ posts' = <<>>
    /\ UNCHANGED <<now, tk, targets, base_req, idx, req, preq, top_meta,
                   all_posts, meta, warnings, results, adapter>>

\* a plain feed's _paginate returns; meta.update and return
ReturnPlain ==
    /\ pc = "plain"
    /\ ~LoopCond(pg, preq)
    /\ res' = SuccessResult(req, pg.kept_rows, PaginateMeta(pg), req.feed, FALSE)
    /\ pc' = "ret"
    /\ pg' = NoPg
    /\ UNCHANGED <<now, tk, targets, base_req, idx, req, preq, posts, top_meta,
                   all_posts, meta, warnings, fetchLog, results, adapter>>

\* auto feed: the top run returns with the quota met; meta = top_meta
ReturnTop ==
    /\ pc = "top"
    /\ ~LoopCond(pg, preq)
    /\ ~NeedsFallback(req, posts \o pg.kept_rows)
    /\ res' = SuccessResult(req, posts \o pg.kept_rows, PaginateMeta(pg), "top", FALSE)
    /\ top_meta' = PaginateMeta(pg)
    /\ pc' = "ret"
    /\ pg' = NoPg
    /\ UNCHANGED <<now, tk, targets, base_req, idx, req, preq, posts,
                   all_posts, meta, warnings, fetchLog, results, adapter>>

\* auto feed: the top run returns short of the quota; the recent run starts
StartFallback ==
    /\ pc = "top"
    /\ ~LoopCond(pg, preq)
    /\ NeedsFallback(req, posts \o pg.kept_rows)
    /\ posts' = posts \o pg.kept_rows
    /\ top_meta' = PaginateMeta(pg)
    /\ preq' = RecentReq(req, posts')
    /\ now' \in ClockReadings
    /\ pg' = PaginateInit(preq', now')
    /\ pc' = "recent"
    /\ UNCHANGED <<tk, targets, base_req, idx, req, res,
                   all_posts, meta, warnings, fetchLog, results, adapter>>

\* auto feed: the recent run returns; rows and metas are merged
ReturnRecent ==
    /\ pc = "recent"
    /\ ~LoopCond(pg, preq)
    /\ res' = SuccessResult(req, posts \o pg.kept_rows,
                            MergedMeta(top_meta, PaginateMeta(pg), posts \o pg.kept_rows),
                            "top+recent", TRUE)
    /\ pc' = "ret"
    /\ pg' = NoPg
    /\ posts' = <<>>
    /\ UNCHANGED <<now, tk, targets, base_req, idx, req, preq, top_meta,
                   all_posts, meta, warnings, fetchLog, results, adapter>>

NextPc == IF idx + 1 > Len(targets) THEN "done" ELSE "loop"

\* main: res.get("error") is truthy: warn and continue
WarnTarget ==
    /\ pc = "ret"
    /\ HasError(res)
    /\ warnings' = Append(warnings, WarningOf(targets[idx], res))
    /\ results' = Append(results, res)
    /\ idx' = idx + 1
    /\ pc' = NextPc
    /\ UNCHANGED <<now, tk, targets, base_req, req, preq, pg, posts, top_meta, res,
                   all_posts, meta, fetchLog, adapter>>

\* main: tag the rows, extend all_posts, add the counters
MergeTarget ==
    /\ pc = "ret"
    /\ ~HasError(res)
    /\ all_posts' = ExtendPosts(all_posts, res, targets[idx])
    /\ meta' = AddMeta(meta, res)
    /\ results' = Append(results, res)
    /\ idx' = idx + 1
    /\ pc' = NextPc
    /\ UNCHANGED <<now, tk, targets, base_req, req, preq, pg, posts, top_meta, res,
                   warnings, fetchLog, adapter>>

Next ==
    \/ StartTarget
    \/ ResolveUser
    \/ ResolveRaises
    \/ Fetch
    \/ FetchRaises
    \/ ReturnPlain
    \/ ReturnTop
    \/ StartFallback
    \/ ReturnRecent
    \/ WarnTarget
    \/ MergeTarget

Spec == Init /\ [][Next]_vars

\* iter_hashtag_medias: client.get returns a page, whatever the cursor sent
TikFetch ==
    /\ tk.pc = "fetch"
    /\ \E data \in TikPages :
           /\ tk.fetched + Len(data.itemList) <= MaxTikFetched
           /\ tk' = TikPage(tk, data)
    /\ UNCHANGED <<now, pc, targets, base_req, idx, req, preq, pg, posts, top_meta, res,
                   all_posts, meta, warnings, fetchLog, results, adapter>>

\* client.get raises LamatokError, which leaves fetch_hashtag_medias
TikRaises ==
    /\ tk.pc = "fetch"
    /\ tk' = [tk EXCEPT !.pc = "raised"]
    /\ UNCHANGED <<now, pc, targets, base_req, idx, req, preq, pg, posts, top_meta, res,
                   all_posts, meta, warnings, fetchLog, results, adapter>>

TikNext ==
    \/ TikFetch
    \/ TikRaises

\* one call of fetch_hashtag_medias with a limit the sidebar allows
TikInit ==
    /\ now = Clock0
    /\ pc = "done"
    /\ targets = <<>>
    /\ base_req = ScrapeRequest("hashtag", "", "top", 1, 1, 1, 0, 0, 0, TRUE, FALSE)
    /\ idx = 1
    /\ req = base_req
    /\ preq = base_req
    /\ pg = NoPg
    /\ posts = <<>>
    /\ top_meta = NoMeta
    /\ res = NoRes
    /\ all_posts = <<>>
    /\ meta = BatchMeta0(base_req, <<>>)
    /\ warnings = <<>>
    /\ fetchLog = <<>>
    /\ results = <<>>
    /\ adapter = FreeAdapter
    /\ \E limit \in 1..MaxPosts, mv \in {0, 1}, ml \in {0, 1} :
           tk = TikStart("dog", limit, Filters(1, mv, ml, 0), now)

TikSpec == TikInit /\ [][TikNext]_vars

\* the provider answers every call
TikLiveSpec == TikSpec /\ WF_vars(TikNext)

\* a batch of hashtag targets
BatchInit ==
    \E b \in BaseReqs({"hashtag", "username"}, 1..MaxPosts, {1}),
       ts \in NonEmptySeqs(TargetNames, MaxTargets) :
        /\ b.feed \in {"top", "auto_(top_to_recent)", "posts"}
        /\ b.method = "username" => Len(ts) = 1
        /\ ts[1] = "dog"
        /\ InitWith(b, ts, PlainAdapter({ItemA, ItemB}, {"c1"}))

BatchSpec == BatchInit /\ [][Next]_vars

\* one target, a provider whose recent feed is a fixed list of pages
FeedInit ==
    \E b \in BaseReqs({"hashtag", "username"}, 1..MaxPosts, 1..MaxRequests),
       pages \in NonEmptySeqs(SeqsUpTo(FeedItems, MaxPageLen), MaxFeedPages) :
        /\ \/ b.method = "hashtag" /\ IsAuto(b.feed)
           \/ /\ b.feed = "posts"
              /\ b.max_posts = 1
              /\ b.max_requests = 1
              /\ pages = <<<<ItemA>>>>
        /\ InitWith(b, <<"dog">>, FixedAdapter(FeedItems, {"c1"}, pages))

FeedSpec == FeedInit /\ [][Next]_vars

LiveInit ==
    \E b \in BaseReqs({"hashtag", "username"}, 1..MaxPosts, 1..MaxRequests) :
        /\ ValidBase(b)
        /\ InitWith(b, <<"dog">>, PlainAdapter(FeedItems, {"c1"}))

\* the program keeps running: a step that can be taken is taken
LiveSpec == LiveInit /\ [][Next]_vars /\ WF_vars(Next)

\* one target, the plain recent feed served from a fixed list of pages of dated
\* and undated items; the other feeds with one request of one row
FilterInit ==
    \E b \in BaseReqs({"hashtag", "username"}, 1..MaxPosts, 1..MaxRequests),
       ml \in {1, 2},
       pages \in NonEmptySeqs(SeqsUpTo({ItemA, ItemB}, MaxPageLen), MaxFeedPages) :
        /\ \/ b.method = "hashtag" /\ b.feed = "recent"
           \/ /\ ValidBase(b)
              /\ b.feed \in {"posts", "auto_(top_to_recent)"}
              /\ b.max_posts = 1
              /\ b.max_requests = 1
              /\ ml = 1
              /\ pages = <<<<ItemA>>>>
        /\ InitWith([b EXCEPT !.min_likes = ml], <<"dog">>, FixedAdapter({ItemA}, {}, pages))

FilterSpec == FilterInit /\ [][Next]_vars

\* one target, any floors of 0 and 1, single pages of items whose counters are
\* numbers, negative numbers, missing or no numbers
CounterInit ==
    \E b \in BaseReqs({"hashtag", "username"}, 1..MaxPosts, {1}),
       mp \in {0, 1}, ml \in {0, 1}, mc \in {0, 1} :
        /\ ValidBase(b)
        /\ b.feed \in {"top", "posts", "auto_(top_to_recent)"}
        /\ InitWith([b EXCEPT !.min_plays = mp, !.min_likes = ml, !.min_comments = mc],
                    <<"dog">>, PlainAdapter({ItemA, ItemLow, ItemNeg}, {}))

CounterSpec == CounterInit /\ [][Next]_vars

\* the Target field typed into either app; Run with no target left stops
\* before any request is built
TargetInit ==
    \E app \in {"instagram_app", "app"}, m \in {"hashtag", "username"},
       raw \in NonEmptySeqs(Alphabet, MaxRawLen) :
        \E b \in BaseReqs({m}, {1}, {1}) :
            /\ b.feed \in (IF m = "hashtag" THEN {"top", "auto_(top_to_recent)"} ELSE {"posts"})
            /\ LET ts == IF app = "app" THEN AppTargets(raw) ELSE ParseTargets(m, raw)
               IN /\ ts # <<>>
                  /\ InitWith(b, ts, PlainAdapter({ItemA}, {}))

TargetSpec == TargetInit /\ [][Next]_vars

-----------------------------------------------------------------------------
(* Properties *)

TopEndpoint == EndpointOf("hashtag", "top")
RecentEndpoint == EndpointOf("hashtag", "recent")

\* a single-target run has returned a success result
RunOk == pc = "ret" /\ res.kind = "ok"

\* the provider calls of the current run to one endpoint
CallsTo(ep) == {i \in DOMAIN fetchLog : fetchLog[i].call = ep}

\* the rows of ps that one source produced
RowsFrom(ps, source) == SelectSeq(ps, LAMBDA row : row.source = source)

\* the five counters and labels of a meta
CoreMeta(m) ==
    [endpoint |-> m.endpoint, cursor |-> m.cursor, fetched |-> m.fetched,
     kept |-> m.kept, requests |-> m.requests]

\* C1: a successful single-target run with max_posts >= 1 returns at most
\* max_posts rows, whatever the method, the feed and the pages served.
C1_RowsWithinQuota ==
    (RunOk /\ req.max_posts >= 1) => Len(res.posts) <= req.max_posts

\* an auto run whose recent feed served more passing items than the shortfall
C1_Witness ==
    /\ RunOk
    /\ IsAuto(req.feed)
    /\ res.meta.fallback_used
    /\ req.max_posts = 2
    /\ Len(RowsFrom(res.posts, "hashtag_top")) = 1
    /\ Len(res.posts) = 2

\* C2: a successful single-target run reports meta.requests <= max_requests,
\* also when the recent feed is fetched after the top feed.
C2_RequestsWithinBudget ==
    RunOk => res.meta.requests <= req.max_requests

\* C3: a Paginator run with max_requests >= 1 issues at most max_requests page
\* fetches and then ends, whatever the provider answers.
C3_PaginatorTerminates ==
    /\ [](\A p \in {"top", "recent", "plain"} :
            (pc = p /\ preq.max_requests >= 1) =>
                Cardinality(CallsTo(EndpointOf(req.method, preq.feed))) <= preq.max_requests)
    /\ \A p \in {"top", "recent", "plain"} : (pc = p) ~> (pc # p)

\* a run that spent its whole budget on non-empty pages carrying the same cursor
\* without keeping a row
C3_Witness ==
    /\ pc = "plain"
    /\ preq.max_requests = 2
    /\ pg.requests = 2
    /\ pg.kept = 0
    /\ pg.fetched = 2 * MaxPageLen
    /\ fetchLog[2].cursor = "c1"
    /\ pg.cursor = "c1"
    /\ ~pg.brk

\* C4: in an auto run whose top feed keeps max_posts rows the recent feed is
\* never fetched, fallback_used is false and the meta is the top run's meta.
C4_ShortCircuit ==
    (RunOk /\ IsAuto(req.feed)
        /\ Len(RowsFrom(res.posts, "hashtag_top")) = req.max_posts) =>
            /\ CallsTo(RecentEndpoint) = {}
            /\ ~res.meta.fallback_used
            /\ res.meta.effective_feed = "top"
            /\ CoreMeta(res.meta) = top_meta
            /\ top_meta.kept = req.max_posts

\* the top feed needed two pages to keep two rows
C4_Witness ==
    /\ RunOk
    /\ IsAuto(req.feed)
    /\ req.max_posts = 2
    /\ Len(RowsFrom(res.posts, "hashtag_top")) = 2
    /\ res.meta.requests = 2
    /\ res.meta.cursor # ""

\* the items of a page that pass the filter and carry a code, in page order
PassingItems(items, r, cutoff_ts) ==
    SelectSeq(items, LAMBDA it : Passes(it, r, cutoff_ts) /\ it.code # "")

\* the passing items of all pages of a fixed feed
RECURSIVE TotalSupply(_, _, _)
TotalSupply(pages, r, cutoff_ts) ==
    IF pages = <<>> THEN 0
    ELSE Len(PassingItems(Head(pages), r, cutoff_ts)) + TotalSupply(Tail(pages), r, cutoff_ts)

\* the passing items of the first budget pages of a fixed feed, up to and
\* including its first empty page
RECURSIVE ReachableSupply(_, _, _, _)
ReachableSupply(pages, budget, r, cutoff_ts) ==
    IF pages = <<>> \/ budget = 0 THEN 0
    ELSE Len(PassingItems(Head(pages), r, cutoff_ts))
         + (IF Head(pages) = <<>> THEN 0
            ELSE ReachableSupply(Tail(pages), budget - 1, r, cutoff_ts))

\* an auto run over a fixed recent feed returned with the top feed short of the quota
FellShort ==
    /\ RunOk
    /\ IsAuto(req.feed)
    /\ adapter.mode = "fixed"
    /\ Len(RowsFrom(res.posts, "hashtag_top")) < req.max_posts

Shortfall == req.max_posts - Len(RowsFrom(res.posts, "hashtag_top"))

\* C5 as stated: when the top feed kept k < max_posts rows and the recent feed
\* holds at least max_posts - k passing items with a code, the result has
\* exactly max_posts rows.
C5_FallbackCompleteness ==
    (FellShort /\ TotalSupply(adapter.recent, req, CutoffTs(req, now)) >= Shortfall)
        => Len(res.posts) = req.max_posts

\* C5 amended: when the top feed kept k < max_posts rows and the recent feed
\* holds at least max_posts - k passing items with a code within its first
\* max_requests pages and no later than its first empty page, the result has
\* exactly max_posts rows.
C5_FallbackCompletenessWithinBudget ==
    (FellShort
        /\ ReachableSupply(adapter.recent, req.max_requests, req, CutoffTs(req, now))
              >= Shortfall)
        => Len(res.posts) = req.max_posts

\* the recent feed's first page holds no passing item and its second page fills
\* the whole quota
C5_Witness ==
    /\ FellShort
    /\ req.max_posts = 2
    /\ Shortfall = 2
    /\ Len(adapter.recent) = 2
    /\ Len(adapter.recent[1]) > 0
    /\ PassingItems(adapter.recent[1], req, CutoffTs(req, now)) = <<>>
    /\ Len(res.posts) = 2

RequestFields ==
    {"method", "target", "feed", "max_posts", "max_requests", "days_ago", "min_plays",
     "min_likes", "min_comments", "include_unknown_dates", "debug"}

\* C6: the request of the recent run has max_posts = max_posts - k, k the rows
\* the top run kept, and every other field but feed as in the original
\* request, which stays the request main built for the target.
C6_DerivedRequest ==
    pc = "recent" =>
        /\ Len(posts) = top_meta.kept
        /\ preq.max_posts = req.max_posts - top_meta.kept
        /\ preq.feed = "recent"
        /\ \A f \in RequestFields \ {"feed", "max_posts"} : preq[f] = req[f]
        /\ DOMAIN preq = RequestFields
        /\ req = TargetReq(base_req, targets[idx])

\* the top run kept one of two rows
C6_Witness ==
    /\ pc = "recent"
    /\ req.max_posts = 2
    /\ top_meta.kept = 1
    /\ preq.max_posts = 1
    /\ pg.requests = 1

\* the rows _row gives the passing items of the page a Paginator state st has
\* just fetched for the request pr of the run r
PassingRows(st, pr, r) ==
    LET its == PassingItems(FlattenItems(st.resp), pr, st.cutoff_ts)
    IN [i \in 1..Len(its) |->
            Row(its[i], SourceOf(r.method, pr.feed), DiscoveryOf(r.method, r.target))]

\* C7: in an auto result every row of the top feed precedes every row of the
\* recent feed, and each feed's rows are in the order in which they passed the
\* filter: a page appends a prefix of its passing rows, in page order.
C7_PrimaryFirst ==
    [][/\ (pc' = "ret" /\ res'.kind = "ok" /\ IsAuto(req.feed)) =>
            \A i, j \in DOMAIN res'.posts :
                (res'.posts[i].source = "hashtag_top"
                    /\ res'.posts[j].source = "hashtag_recent") => i < j
       /\ (Running /\ pc' = pc /\ pg'.requests = pg.requests + 1) =>
            \E k \in 0..Len(PassingRows(pg', preq, req)) :
                pg'.kept_rows = pg.kept_rows \o SubSeq(PassingRows(pg', preq, req), 1, k)
       /\ (pc = "top" /\ pc' = "recent") => posts' = pg.kept_rows
       /\ (pc = "top" /\ pc' = "ret" /\ res'.kind = "ok") => res'.posts = pg.kept_rows
       /\ (pc = "recent" /\ pc' = "ret" /\ res'.kind = "ok") =>
            res'.posts = posts \o pg.kept_rows]_vars

\* a fallback result with one row of each feed, the top row being the edge item
C7_Witness ==
    /\ RunOk
    /\ IsAuto(req.feed)
    /\ Len(res.posts) = 2
    /\ res.posts[1].source = "hashtag_top"
    /\ res.posts[1].code = "e"
    /\ res.posts[2].source = "hashtag_recent"
    /\ res.posts[2].code = "a"

\* the finished runs that ended in an error, and those that succeeded
Errors == {i \in DOMAIN results : results[i].kind = "err"}
Successes == {i \in DOMAIN results : results[i].kind = "ok"}

\* the tagged rows of the successful runs among the first n, in target order
RECURSIVE MergedRows(_)
MergedRows(n) ==
    IF n = 0 THEN <<>>
    ELSE MergedRows(n - 1)
         \o (IF results[n].kind = "ok" THEN TagRows(results[n].posts, targets[n]) ELSE <<>>)

\* the warnings of the failed runs among the first n, in target order
RECURSIVE ExpectedWarnings(_)
ExpectedWarnings(n) ==
    IF n = 0 THEN <<>>
    ELSE ExpectedWarnings(n - 1)
         \o (IF results[n].kind = "err" THEN <<WarningOf(targets[n], results[n])>> ELSE <<>>)

\* C8: after the batch loop every target has been processed, each target whose
\* run ended in an error has exactly one warning, and the merged rows are the
\* rows of the targets that succeeded.
C8_BatchIsolation ==
    pc = "done" =>
        /\ Len(results) = Len(targets)
        /\ warnings = ExpectedWarnings(Len(results))
        /\ all_posts = MergedRows(Len(results))

\* C9: the merged rows are the rows of target 1, then those of target 2, and
\* so on, each target's rows in the order its run returned them.
C9_BatchOrder ==
    /\ Len(results) = idx - 1
    /\ all_posts = MergedRows(Len(results))

\* two different targets, the first with two different rows, the second with one
C9_Witness ==
    /\ pc = "done"
    /\ Len(targets) = 2
    /\ targets[1] # targets[2]
    /\ Len(results[1].posts) = 2
    /\ results[1].posts[1].code # results[1].posts[2].code
    /\ Len(results[2].posts) = 1
    /\ Len(all_posts) = 3

RECURSIVE SumOver(_, _)
SumOver(n, key) ==
    IF n = 0 THEN 0
    ELSE SumOver(n - 1, key) + (IF results[n].kind = "ok" THEN results[n].meta[key] ELSE 0)

\* C10: the totals of the merged meta are the sums of fetched, requests and
\* kept over the targets that succeeded, fallback_used is the OR of their
\* flags, and total_kept is the number of merged rows.
C10_BatchMeta ==
    /\ meta.total_fetched = SumOver(Len(results), "fetched")
    /\ meta.total_requests = SumOver(Len(results), "requests")
    /\ meta.total_kept = SumOver(Len(results), "kept")
    /\ meta.fallback_used = (\E i \in Successes : results[i].meta.fallback_used)
    /\ meta.total_kept = Len(all_posts)

\* two targets succeeded, only the first with a fallback
C10_Witness ==
    /\ pc = "done"
    /\ Len(targets) = 2
    /\ Successes = {1, 2}
    /\ results[1].meta.fallback_used
    /\ ~results[2].meta.fallback_used
    /\ meta.total_requests = 3
    /\ meta.total_fetched = 5
    /\ meta.total_kept = 4

\* the last provider call of the current run
LastCall == fetchLog[Len(fetchLog)]

\* the current run has issued a provider call that raised
Raised == fetchLog # <<>> /\ LastCall.raised

\* C11: when a provider call of a single-target run raises (the user-id
\* resolution, a page fetch of the primary feed or one of the secondary feed),
\* scrape_instagram returns an error result with no rows, no meta and the
\* message of the exception, and main merges no row of that run.
C11_ErrorResult ==
    [][/\ (fetchLog' # fetchLog /\ fetchLog'[Len(fetchLog')].raised) =>
            /\ pc' = "ret"
            /\ res'.kind = "err"
            /\ res'.posts = <<>>
            /\ ~res'.has_meta
            /\ res'.profile_info = <<>>
            /\ res'.error = fetchLog'[Len(fetchLog')].msg
            /\ all_posts' = all_posts
       /\ (pc = "ret" /\ Raised) =>
            /\ res.kind = "err"
            /\ Len(all_posts') = Len(all_posts)]_vars

\* the recent feed raised after the top feed had kept a row
C11_Witness ==
    /\ pc = "ret"
    /\ Raised
    /\ LastCall.call = RecentEndpoint
    /\ LastCall.msg = "boom"
    /\ top_meta.kept = 1
    /\ res.error = "boom"
    /\ res.posts = <<>>

\* C12: a provider call that raised is the last provider call of its run: the
\* failed cursor is not fetched again and no other feed is tried.
C12_NoRetry ==
    /\ \A i \in DOMAIN fetchLog : fetchLog[i].raised => i = Len(fetchLog)
    /\ Raised => pc \in {"ret", "loop", "done"}

\* the second page fetch of the top feed of an auto run raised
C12_Witness ==
    /\ pc = "ret"
    /\ IsAuto(req.feed)
    /\ Len(fetchLog) = 2
    /\ Raised
    /\ LastCall.call = TopEndpoint
    /\ LastCall.cursor = "c1"
    /\ CallsTo(RecentEndpoint) = {}

\* a request the specification calls invalid: a feed the method does not
\* support, or a quota or budget below 1
InvalidRequest(r) ==
    \/ r.method = "hashtag" /\ r.feed \notin HashtagFeeds /\ ~IsAuto(r.feed)
    \/ r.method = "username" /\ r.feed \notin UserFeeds
    \/ r.max_posts <= 0
    \/ r.max_requests <= 0

\* C13: a run of an invalid request issues no provider call and returns an
\* error result.
C13_InvalidRejected ==
    (pc # "loop" /\ InvalidRequest(req)) =>
        /\ fetchLog = <<>>
        /\ pc \in {"ret", "done"} => res.kind = "err"

\* C14: a target a provider call is issued for matches the allowed character
\* set, for hashtags and for usernames, in both apps.
C14_ValidTargetsOnly ==
    fetchLog # <<>> => FullMatchWord(req.target)

\* requests that differ from r in the five filter fields only
FilterVariants(r) ==
    {[r EXCEPT !.min_plays = mp, !.min_likes = ml, !.min_comments = mc,
               !.days_ago = d, !.include_unknown_dates = u] :
        mp \in {0, 3}, ml \in {1, 2}, mc \in {0, 1}, d \in {0, 1}, u \in BOOLEAN}

\* r2 is r1 with thresholds raised, the age window shortened or undated items
\* switched off
Tightens(r2, r1) ==
    /\ r2.min_plays >= r1.min_plays
    /\ r2.min_likes >= r1.min_likes
    /\ r2.min_comments >= r1.min_comments
    /\ r2.days_ago <= r1.days_ago
    /\ r2.include_unknown_dates => r1.include_unknown_dates

\* a Paginator run over the fixed recent feed has left its loop
FixedRunEnded ==
    /\ pc = "plain"
    /\ adapter.mode = "fixed"
    /\ CurFeed = "recent"
    /\ ~LoopCond(pg, preq)

\* C15: over the same fixed feed, with the same max_posts and max_requests and
\* the same clock reading, a Paginator run with tightened filters never keeps
\* more rows than the run with the looser filters; the run the program made is
\* the run of its own request.
C15_MonotonicFiltering ==
    FixedRunEnded =>
        /\ pg = Paginate(adapter.recent, preq, now)
        /\ \A r1, r2 \in FilterVariants(preq) :
              Tightens(r2, r1) =>
                  Paginate(adapter.recent, r2, now).kept <= Paginate(adapter.recent, r1, now).kept

\* a run of two pages that kept two rows where raising min_likes keeps one, as
\* does switching undated items off
C15_Witness ==
    /\ FixedRunEnded
    /\ pg.requests = 2
    /\ pg.kept = 2
    /\ Paginate(adapter.recent, [preq EXCEPT !.min_likes = 2], now).kept = 1
    /\ Paginate(adapter.recent, [preq EXCEPT !.include_unknown_dates = FALSE], now).kept = 1

\* the raw items a provider response may carry
RawItems == FreeItems \cup {ItemB}

\* row is what _row returns for a raw item with the code of the row
IsRowOfItem(row, source, discovery) ==
    \E it \in RawItems : it.code = row.code /\ row = Row(it, source, discovery)

Min(a, b) == IF a <= b THEN a ELSE b

\* C17: when the first page of a Paginator run carries f raw items, p of them
\* passing with a code, and no cursor, the run ends after that page with
\* requests = 1, fetched = f and kept = min(p, max_posts), and a plain feed's
\* result has exactly these rows and counters.
C17_SinglePage ==
    [][/\ (Running /\ pc' = pc /\ pg.requests = 0 /\ pg'.requests = 1
              /\ CursorOf(pg'.resp) = "") =>
            /\ ~LoopCond(pg', preq)
            /\ pg'.fetched = Len(FlattenItems(pg'.resp))
            /\ pg'.kept = Min(Len(PassingRows(pg', preq, req)), preq.max_posts)
            /\ pg'.kept_rows = SubSeq(PassingRows(pg', preq, req), 1, pg'.kept)
       /\ (pc = "plain" /\ pc' = "ret" /\ res'.kind = "ok" /\ pg.requests = 1
              /\ CursorOf(pg.resp) = "") =>
            /\ res'.meta.requests = 1
            /\ res'.meta.fetched = Len(FlattenItems(pg.resp))
            /\ res'.meta.kept = Min(Len(PassingRows(pg, preq, req)), req.max_posts)
            /\ res'.posts = SubSeq(PassingRows(pg, preq, req), 1, res'.meta.kept)]_vars

\* a single page of two raw items, one of them passing, with quota and budget
\* left
C17_Witness ==
    /\ pc = "plain"
    /\ pg.requests = 1
    /\ CursorOf(pg.resp) = ""
    /\ preq.max_posts = 2
    /\ preq.max_requests = 2
    /\ pg.fetched = 2
    /\ Len(PassingRows(pg, preq, req)) = 1
    /\ pg.kept = 1

\* the positions of a page's items that carry a usable code
WithCode(items) == {k \in DOMAIN items : items[k].code # ""}

\* C18: a raw item without a usable code is counted as fetched, is never kept
\* and never becomes a row, and it neither ends the run nor fails it; every
\* row of a run and of a result has a non-empty code.
C18_NoCodeDropped ==
    [][/\ (Running /\ pc' = pc /\ pg'.requests = pg.requests + 1) =>
            /\ pg'.fetched = pg.fetched + Len(FlattenItems(pg'.resp))
            /\ pg'.kept - pg.kept <= Cardinality(WithCode(FlattenItems(pg'.resp)))
            /\ Len(pg'.kept_rows) = pg'.kept
            /\ \A i \in DOMAIN pg'.kept_rows : pg'.kept_rows[i].code # ""
            /\ pg'.brk <=> (CursorOf(pg'.resp) = "" \/ FlattenItems(pg'.resp) = <<>>)
       /\ (pc' = "ret" /\ res'.kind = "ok") =>
            \A i \in DOMAIN res'.posts : res'.posts[i].code # ""]_vars

\* a second page of an item without a code followed by one that is kept, after
\* a first page of two raw items none of which was kept
C18_Witness ==
    /\ Running
    /\ pg.requests = 2
    /\ pg.fetched = 4
    /\ FlattenItems(pg.resp) = <<ItemNoCode, ItemA>>
    /\ pg.kept_rows = <<Row(ItemA, SourceOf(req.method, CurFeed), DiscoveryOf(req.method, req.target))>>
    /\ ~pg.brk

\* C19: one cutoff per single-target run: the cutoff stays the same from page
\* to page and the recent run of an auto request uses the cutoff of its top run.
C19_OneCutoffPerRun ==
    [][/\ (Running /\ pc' = pc) => pg'.cutoff_ts = pg.cutoff_ts
       /\ (pc = "top" /\ pc' = "recent") => pg'.cutoff_ts = pg.cutoff_ts]_vars

\* C20: a page fetch is issued only with kept < max_posts and
\* requests < max_requests, and at every point of a Paginator run, its end
\* included, kept <= max_posts and requests <= max_requests.
C20_LoopInvariant ==
    [][/\ (Running /\ fetchLog' # fetchLog) =>
            /\ pg.kept < preq.max_posts
            /\ pg.requests < preq.max_requests
       /\ pc' \in {"top", "recent", "plain"} =>
            /\ pg'.kept <= preq'.max_posts
            /\ pg'.requests <= preq'.max_requests
            /\ pg'.kept >= 0
            /\ pg'.requests >= 0]_vars

\* a run whose last page met the quota and spent the budget at once, with a
\* cursor left
C20_Witness ==
    /\ Running
    /\ preq.max_posts = 2
    /\ preq.max_requests = 2
    /\ pg.kept = 2
    /\ pg.requests = 2
    /\ Len(PassingRows(pg, preq, req)) = 2
    /\ ~pg.brk

\* the last page fetched carried no cursor or no raw item
Exhausted(st) == CursorOf(st.resp) = "" \/ FlattenItems(st.resp) = <<>>

\* C21: every page fetch but the first of a Paginator run follows a page with
\* a non-empty cursor and at least one raw item: after a page without a
\* cursor, or without raw items, the run issues no fetch, whatever quota and
\* budget are left.
C21_Exhaustion ==
    [][/\ (Running /\ fetchLog' # fetchLog) => (pg.requests = 0 \/ ~Exhausted(pg))
       /\ (Running /\ pc' = pc /\ pg'.requests = pg.requests + 1 /\ Exhausted(pg')) =>
            ~LoopCond(pg', preq)]_vars

\* a first page with a cursor and no raw item, with quota and budget left
C21_Witness ==
    /\ Running
    /\ pg.requests = 1
    /\ pg.kept = 0
    /\ preq.max_posts = 2
    /\ preq.max_requests = 2
    /\ CursorOf(pg.resp) = "c1"
    /\ pg.resp.items = <<>>
    /\ ~LoopCond(pg, preq)

\* the raw items of the first n pages of a fixed feed, in arrival order
RECURSIVE FetchedItems(_, _)
FetchedItems(pages, n) ==
    IF n = 0 THEN <<>> ELSE FetchedItems(pages, n - 1) \o pages[n]

\* the rows of the passing items with a code among the pages a run over the
\* fixed recent feed has fetched so far
PassingSoFar ==
    LET its == PassingItems(FetchedItems(adapter.recent, pg.requests), preq, pg.cutoff_ts)
    IN [i \in 1..Len(its) |->
            Row(its[i], SourceOf(req.method, CurFeed), DiscoveryOf(req.method, req.target))]

\* C22: at every point of a Paginator run over a fixed feed the kept rows are
\* the first min(max_posts, passing) rows of the passing items with a code of
\* the pages fetched so far, in arrival and page order, and these are the rows
\* the run returns.
C22_PrefixToQuota ==
    [][/\ (pc = "plain" /\ adapter.mode = "fixed" /\ CurFeed = "recent") =>
            /\ pg.requests <= Len(adapter.recent)
            /\ pg.kept_rows = SubSeq(PassingSoFar, 1, Min(preq.max_posts, Len(PassingSoFar)))
       /\ (pc = "plain" /\ pc' = "ret" /\ res'.kind = "ok") => res'.posts = pg.kept_rows]_vars

\* the second page holds two passing items for a headroom of one, after a
\* first page with an item that fails and one that passes
C22_Witness ==
    /\ pc = "plain"
    /\ adapter.mode = "fixed"
    /\ adapter.recent = <<<<ItemA, ItemB>>, <<ItemB, ItemB>>>>
    /\ preq.min_likes = 2
    /\ preq.max_posts = 2
    /\ pg.requests = 2
    /\ Len(PassingSoFar) = 3
    /\ pg.kept = 2

\* C23: the first page fetch of a Paginator run is given no cursor and every
\* later one the cursor of the response before it; a fetch is issued only
\* when every earlier fetch of the run has returned and been counted.
C23_CursorChaining ==
    [][/\ (Running /\ fetchLog' # fetchLog) =>
            /\ fetchLog'[Len(fetchLog')].cursor =
                  (IF pg.requests = 0 THEN "" ELSE CursorOf(pg.resp))
            /\ Cardinality(CallsTo(EndpointOf(req.method, CurFeed))) = pg.requests
       /\ (Running /\ pc' = pc /\ pg'.requests = pg.requests + 1) =>
            pg'.cursor = CursorOf(pg'.resp)]_vars

\* a second fetch given the cursor c2 of the first response; its own response
\* carries c1
C23_Witness ==
    /\ Running
    /\ req.method = "hashtag"
    /\ Len(fetchLog) = 2
    /\ fetchLog[1].cursor = ""
    /\ fetchLog[2].cursor = "c2"
    /\ pg.requests = 2
    /\ CursorOf(pg.resp) = "c1"

\* C24: when the recent run of an auto request returns, the result's meta has
\* fetched and requests the sums of the two runs, kept the sum of the two
\* runs' kept and the number of rows returned, and the recent run's cursor
\* when there is one, else the top run's.
C24_MergedMeta ==
    [][(pc = "recent" /\ pc' = "ret" /\ res'.kind = "ok") =>
            /\ res'.meta.fetched = top_meta.fetched + pg.fetched
            /\ res'.meta.requests = top_meta.requests + pg.requests
            /\ res'.meta.kept = top_meta.kept + pg.kept
            /\ res'.meta.kept = Len(res'.posts)
            /\ res'.meta.cursor = (IF pg.cursor # "" THEN pg.cursor ELSE top_meta.cursor)
            /\ top_meta' = top_meta]_vars

\* a fallback result of two top pages and one recent page, one row of each,
\* with the recent run's cursor
C24_Witness ==
    /\ RunOk
    /\ res.meta.fallback_used
    /\ top_meta.requests = 2
    /\ top_meta.kept = 1
    /\ top_meta.cursor = "c1"
    /\ res.meta.requests = 3
    /\ res.meta.kept = 2
    /\ res.meta.fetched = top_meta.fetched + 2
    /\ res.meta.cursor = "c2"

\* C25: a success result has fallback_used true exactly when it is returned by
\* a recent run started after the top run, which happens exactly for a hashtag
\* auto request whose top run kept fewer than max_posts rows; effective_feed
\* is top+recent exactly then, top for an auto request without fallback and
\* the request's feed otherwise.
C25_FallbackFlag ==
    [][/\ (pc # "ret" /\ pc' = "ret" /\ res'.kind = "ok") =>
            /\ res'.meta.fallback_used = (pc = "recent")
            /\ (pc = "recent") = (/\ req.method = "hashtag"
                                  /\ IsAuto(req.feed)
                                  /\ top_meta'.kept < req.max_posts)
            /\ res'.meta.effective_feed =
                  (IF pc = "recent" THEN "top+recent"
                   ELSE IF IsAuto(req.feed) THEN "top" ELSE req.feed)
            /\ (req.method = "username" \/ ~IsAuto(req.feed)) => ~res'.meta.fallback_used
       /\ (pc = "top" /\ pc' = "recent") =>
            /\ pg.kept < req.max_posts
            /\ top_meta'.kept = pg.kept]_vars

\* a fallback result whose recent run fetched a page and kept no row
C25_Witness ==
    /\ RunOk
    /\ IsAuto(req.feed)
    /\ res.meta.fallback_used
    /\ res.meta.effective_feed = "top+recent"
    /\ req.max_posts = 2
    /\ top_meta.kept = 1
    /\ CallsTo(RecentEndpoint) # {}
    /\ Len(res.posts) = 1

\* r with the three engagement floors at zero and include_unknown_dates = u
RecencyOnly(r, u) ==
    [r EXCEPT !.min_plays = 0, !.min_likes = 0, !.min_comments = 0,
              !.include_unknown_dates = u]

\* C26: for every raw item of a fetched page and the cutoff of the run, with
\* the floors at zero, an item without a resolvable timestamp passes exactly
\* when include_unknown_dates is set and an item with one passes exactly when
\* the timestamp is >= the cutoff.
C26_RecencyPolicy ==
    Running =>
        \A k \in DOMAIN FlattenItems(pg.resp), u \in BOOLEAN :
            LET it == FlattenItems(pg.resp)[k]
            IN Passes(it, RecencyOnly(preq, u), pg.cutoff_ts)
                   <=> (IF Ts(it) = NoneV THEN u ELSE Ts(it).v >= pg.cutoff_ts)

\* an item dated exactly at the cutoff was kept, and one second later the same
\* item is too old
C26_Witness ==
    /\ Running
    /\ pg.requests = 1
    /\ FlattenItems(pg.resp) = <<ItemEdge, ItemEdge>>
    /\ pg.cutoff_ts = Ts(ItemEdge).v
    /\ pg.kept = 2
    /\ ~Passes(ItemEdge, preq, pg.cutoff_ts + 1)

\* the recency check of _passes for the current run
RecencyOk(it) ==
    IF Ts(it) = NoneV THEN preq.include_unknown_dates ELSE Ts(it).v >= pg.cutoff_ts

\* the three floors met by the counters _plays and _i resolve
FloorsMet(it, r) ==
    /\ Plays(it) >= r.min_plays
    /\ IntField(it, "like_count") >= r.min_likes
    /\ IntField(it, "comment_count") >= r.min_comments

ZeroFloors(r) == [r EXCEPT !.min_plays = 0, !.min_likes = 0, !.min_comments = 0]

\* C27: an item of a fetched page that passes the recency check passes the
\* filter exactly when its plays, likes and comments each meet their floor,
\* and with the three floors at zero every such item passes, whatever its
\* counters.
C27_EngagementFloors ==
    Running =>
        \A k \in DOMAIN FlattenItems(pg.resp) :
            LET it == FlattenItems(pg.resp)[k]
            IN RecencyOk(it) =>
                  /\ Passes(it, preq, pg.cutoff_ts) <=> FloorsMet(it, preq)
                  /\ Passes(it, ZeroFloors(preq), pg.cutoff_ts)

\* C28: a TikTok hashtag run returns at most limit rows and comes to an end,
\* whatever pages the provider returns.
C28_TikTokTerminates ==
    /\ [](tk.pc = "done" => Len(tk.results) <= tk.limit)
    /\ <>(tk.pc # "fetch")

\* the counters a row must carry for its item: play_count before view_count,
\* zero for a counter that is missing or no number
CounterOf(x) == IF IsInt(x) THEN x.v ELSE 0

\* C29: the row _row builds for an item of a fetched page has plays, likes and
\* comments that are each at least zero, plays taken from play_count before
\* view_count, and an engagement equal to the sum of the three.
C29_RowCounters ==
    Running =>
        \A k \in DOMAIN FlattenItems(pg.resp) :
            LET it == FlattenItems(pg.resp)[k]
                r == Row(it, SourceOf(req.method, CurFeed), DiscoveryOf(req.method, req.target))
            IN r # NoRow =>
                  /\ r.plays >= 0 /\ r.likes >= 0 /\ r.comments >= 0
                  /\ r.plays = (IF IsInt(it.play_count) THEN it.play_count.v
                                ELSE CounterOf(it.view_count))
                  /\ r.likes = CounterOf(it.like_count)
                  /\ r.comments = CounterOf(it.comment_count)
                  /\ r.engagement = r.plays + r.likes + r.comments

\* C30: every success result reports as kept the number of rows it returns
\* and no more than it reports as fetched, and while a Paginator run goes on
\* its kept, fetched and requests never decrease.
C30_MetaCounters ==
    [][/\ (pc # "ret" /\ pc' = "ret" /\ res'.kind = "ok") =>
            /\ res'.meta.kept = Len(res'.posts)
            /\ res'.meta.kept <= res'.meta.fetched
       /\ (Running /\ pc' = pc) =>
            /\ pg'.kept >= pg.kept
            /\ pg'.fetched >= pg.fetched
            /\ pg'.requests >= pg.requests]_vars

\* a fallback result that fetched an item which no run kept, after a top run
\* of two pages
C30_Witness ==
    /\ RunOk
    /\ res.meta.fallback_used
    /\ top_meta.requests = 2
    /\ res.meta.kept = 2
    /\ res.meta.fetched = 3

\* the page fetches of the current run: every provider call but the
\* resolution of the user id
PageFetches == {i \in DOMAIN fetchLog : fetchLog[i].call # "user_by_username_v1"}

\* C31: a success result reports as requests the number of page fetches its
\* run issued, over both feeds of an auto run, and that number is at least 1
\* when max_posts and max_requests are at least 1.
C31_RequestsCounted ==
    RunOk =>
        /\ res.meta.requests = Cardinality(PageFetches)
        /\ (req.max_posts >= 1 /\ req.max_requests >= 1) => res.meta.requests >= 1

\* a fallback result of three fetches, two of them to the top feed, that
\* returned five items
C31_Witness ==
    /\ RunOk
    /\ res.meta.fallback_used
    /\ res.meta.requests = 3
    /\ Cardinality(CallsTo("hashtag_medias_top_chunk_v1")) = 2
    /\ res.meta.fetched = 5

====
